---- MODULE Spec2Model ----
(***************************************************************************)
(* Model of the quiz pipeline of ai_services.py: chunk_text,               *)
(* parse_quiz_response, validate_quiz_questions and regenerate_if_needed   *)
(* (with generate_quiz and the Model Client it calls), and of the callers  *)
(* of the external collaborators: generate_summary, extract_text_from_file *)
(* of utils.py and the upload_file endpoint of app.py.                     *)
(*                                                                         *)
(* Text is a sequence of one-character strings, so that the regular        *)
(* expressions of the parser are modelled by what they match.              *)
(***************************************************************************)
EXTENDS Integers, Sequences, FiniteSets, TLC

VARIABLES
    \* regenerate_if_needed / generate_quiz / Model Client
    pc, text, num_questions, question_type, max_attempts,
    attempt, quiz_text, questions, result, error,
    calls, outstanding, prompts, completions,
    \* parse_quiz_response, run block by block
    ppc, p_spec, p_text, question_blocks, p_idx, p_questions,
    \* validate_quiz_questions, run record by record
    vpc, v_questions, min_questions, v_idx, v_result,
    \* chunk_text, run word by word
    cpc, c_text, max_length, words, w_idx, chunks, current_chunk, current_length,
    \* the service: upload_file, generate_summary and generate_quiz calls
    spc, s_op, s_args, s_filename, s_content, disk, s_exc, s_stage, s_raised, s_observed,
    response, s_calls_left, handled

vars == << pc, text, num_questions, question_type, max_attempts,
           attempt, quiz_text, questions, result, error,
           calls, outstanding, prompts, completions,
           ppc, p_spec, p_text, question_blocks, p_idx, p_questions,
           vpc, v_questions, min_questions, v_idx, v_result,
           cpc, c_text, max_length, words, w_idx, chunks, current_chunk, current_length,
           spc, s_op, s_args, s_filename, s_content, disk, s_exc, s_stage, s_raised, s_observed,
           response, s_calls_left, handled >>

retryVars == << pc, text, num_questions, question_type, max_attempts,
                attempt, quiz_text, questions, result, error,
                calls, outstanding, prompts, completions >>
parseVars == << ppc, p_spec, p_text, question_blocks, p_idx, p_questions >>
validateVars == << vpc, v_questions, min_questions, v_idx, v_result >>
chunkVars == << cpc, c_text, max_length, words, w_idx, chunks, current_chunk, current_length >>
serviceVars == << spc, s_op, s_args, s_filename, s_content, disk, s_exc, s_stage, s_raised, s_observed,
                  response, s_calls_left, handled >>

(***************************************************************************)
(* Bounds of the model.                                                    *)
(***************************************************************************)
MaxAttempts == 2
MaxNumQuestions == 4
MaxBlocks == 2
MaxRecords == 3
MaxTextLen == 6
MaxChunkLen == 4
MaxRequests == 2
MaxSummaryChunks == 3

(***************************************************************************)
(* Characters and strings.                                                 *)
(***************************************************************************)
NL == "\n"
SP == " "
\* the characters \s matches
Whitespace == {SP, NL}
Digits == {"0", "1", "2", "3", "4", "5", "6", "7", "8", "9"}
OptionLetters == <<"A", "B", "C", "D">>

Uppers == <<"A","B","C","D","E","F","G","H","I","J","K","L","M",
            "N","O","P","Q","R","S","T","U","V","W","X","Y","Z">>
Lowers == <<"a","b","c","d","e","f","g","h","i","j","k","l","m",
            "n","o","p","q","r","s","t","u","v","w","x","y","z">>

LowerSet == {Lowers[i] : i \in 1..26}
UpperOf == [c \in LowerSet |-> Uppers[CHOOSE i \in 1..26 : Lowers[i] = c]]

\* str.upper() on one character
Upper(c) == IF c \in LowerSet THEN UpperOf[c] ELSE c

\* mutant of Capitalize: the matched word is kept as written
Capitalize_AsWritten(s) == s

\* str.capitalize() is only applied to a match of (True|False) under
\* re.IGNORECASE: the first letter decides which word it was
Capitalize(s) ==
    IF Upper(s[1]) = "T" THEN <<"T","r","u","e">> ELSE <<"F","a","l","s","e">>

Min(S) == CHOOSE x \in S : \A y \in S : x <= y
Max2(a, b) == IF a >= b THEN a ELSE b

\* s[i..] begins with pat (case-sensitive)
StartsWith(s, i, pat) ==
    /\ i >= 1
    /\ i + Len(pat) - 1 <= Len(s)
    /\ \A k \in 1..Len(pat) : s[i + k - 1] = pat[k]

\* s[i..] begins with pat under re.IGNORECASE
StartsWithI(s, i, pat) ==
    /\ i >= 1
    /\ i + Len(pat) - 1 <= Len(s)
    /\ \A k \in 1..Len(pat) : Upper(s[i + k - 1]) = Upper(pat[k])

\* 'pat' in s
Contains(s, pat) == \E i \in 1..Len(s) : StartsWith(s, i, pat)

RECURSIVE SkipSpace(_, _)
\* first position at or after p that holds no whitespace (Len(s)+1 if none)
SkipSpace(s, p) ==
    IF p > Len(s) THEN Len(s) + 1
    ELSE IF s[p] \notin Whitespace THEN p
    ELSE SkipSpace(s, p + 1)

RECURSIVE SkipSpaceBack(_, _)
\* last position at or before p that holds no whitespace (0 if none)
SkipSpaceBack(s, p) ==
    IF p < 1 THEN 0
    ELSE IF s[p] \notin Whitespace THEN p
    ELSE SkipSpaceBack(s, p - 1)

\* str.strip()
Strip(s) == SubSeq(s, SkipSpace(s, 1), SkipSpaceBack(s, Len(s)))

RECURSIVE Join(_, _)
\* sep.join(parts)
Join(parts, sep) ==
    IF Len(parts) = 0 THEN <<>>
    ELSE IF Len(parts) = 1 THEN parts[1]
    ELSE parts[1] \o sep \o Join(Tail(parts), sep)

Q_MARK == <<"Q", ":">>
CORRECT_MARK == <<"C","o","r","r","e","c","t",":">>
TRUE_WORD == <<"T","r","u","e">>
FALSE_WORD == <<"F","a","l","s","e">>

(***************************************************************************)
(* parse_quiz_response: the regular expressions.                           *)
(***************************************************************************)
\* \d+\. at s[j..]
DigitsDot(s, j) ==
    \E k \in j..Len(s) :
        /\ \A m \in j..k : s[m] \in Digits
        /\ k + 1 <= Len(s)
        /\ s[k + 1] = "."

\* the positions where re.split(r'\n(?=Q:|\d+\.)') cuts: a newline followed
\* by Q: or by a numbered-list marker
SplitPoints(s) ==
    {i \in 1..Len(s) :
        /\ s[i] = NL
        /\ (StartsWith(s, i + 1, Q_MARK) \/ DigitsDot(s, i + 1))}

RECURSIVE SplitFrom(_, _)
SplitFrom(s, start) ==
    LET cuts == {i \in SplitPoints(s) : i >= start}
    IN  IF cuts = {} THEN << SubSeq(s, start, Len(s)) >>
        ELSE << SubSeq(s, start, Min(cuts) - 1) >> \o SplitFrom(s, Min(cuts) + 1)

\* re.split(r'\n(?=Q:|\d+\.)', quiz_text.strip())
SplitBlocks(s) == SplitFrom(Strip(s), 1)

\* the lookahead (?=\n[A-D]\)|Correct:|$) at position e; $ (no re.MULTILINE)
\* holds at the end and before a final newline
LookAhead(s, e) ==
    \/ e = Len(s) + 1
    \/ e = Len(s) /\ s[e] = NL
    \/ /\ e + 2 <= Len(s)
       /\ s[e] = NL
       /\ \E k \in 1..4 : s[e + 1] = OptionLetters[k]
       /\ s[e + 2] = ")"
    \/ StartsWith(s, e, CORRECT_MARK)

RECURSIVE NextLookAhead(_, _)
\* the first position at or after e where the lookahead holds
NextLookAhead(s, e) ==
    IF LookAhead(s, e) THEN e ELSE NextLookAhead(s, e + 1)

\* \s*(.+?)(?=\n[A-D]\)|Correct:|$) matched at p under re.DOTALL: \s* takes
\* all the whitespace, .+? the fewest characters up to the lookahead; when only
\* whitespace is left, \s* gives one character back to .+?
Capture(s, p) ==
    LET w == SkipSpace(s, p)
    IN  IF w <= Len(s)
        THEN [ok |-> TRUE,
              group |-> SubSeq(s, w, NextLookAhead(s, w + 1) - 1)]
        ELSE IF p <= Len(s)
        THEN [ok |-> TRUE, group |-> << s[Len(s)] >>]
        ELSE [ok |-> FALSE, group |-> <<>>]

\* re.search(marker + r'\s*(.+?)(?=\n[A-D]\)|Correct:|$)', block, re.DOTALL):
\* the leftmost occurrence of the marker at which the rest matches
SearchCapture(s, marker) ==
    LET hits == {i \in 1..Len(s) :
                    StartsWith(s, i, marker) /\ i + Len(marker) <= Len(s)}
    IN  IF hits = {} THEN [ok |-> FALSE, group |-> <<>>]
        ELSE Capture(s, Min(hits) + Len(marker))

\* re.search(r'[A-D]\)', block)
HasOptionMarker(s) ==
    \E i \in 1..Len(s) :
        /\ \E k \in 1..4 : s[i] = OptionLetters[k]
        /\ i + 1 <= Len(s)
        /\ s[i + 1] = ")"

\* re.search(r'Correct:\s*([A-D])', block, re.IGNORECASE)
CorrectLetterMatch(s) ==
    LET at(i) == SkipSpace(s, i + Len(CORRECT_MARK))
        hits == {i \in 1..Len(s) :
                    /\ StartsWithI(s, i, CORRECT_MARK)
                    /\ at(i) <= Len(s)
                    /\ \E k \in 1..4 : Upper(s[at(i)]) = OptionLetters[k]}
    IN  IF hits = {} THEN [ok |-> FALSE, group |-> <<>>]
        ELSE [ok |-> TRUE, group |-> << s[at(Min(hits))] >>]

\* re.search(r'Correct:\s*(True|False)', block, re.IGNORECASE)
CorrectBoolMatch(s) ==
    LET at(i) == SkipSpace(s, i + Len(CORRECT_MARK))
        word(j) == IF StartsWithI(s, j, TRUE_WORD) THEN SubSeq(s, j, j + 3)
                   ELSE SubSeq(s, j, j + 4)
        hits == {i \in 1..Len(s) :
                    /\ StartsWithI(s, i, CORRECT_MARK)
                    /\ (StartsWithI(s, at(i), TRUE_WORD) \/ StartsWithI(s, at(i), FALSE_WORD))}
    IN  IF hits = {} THEN [ok |-> FALSE, group |-> <<>>]
        ELSE [ok |-> TRUE, group |-> word(at(Min(hits)))]

(***************************************************************************)
(* Question records.  options is None (absent) or a list of texts.         *)
(***************************************************************************)
None == [none |-> TRUE, items |-> <<>>]
Some(items) == [none |-> FALSE, items |-> items]

McqRecord(question_text, options, correct_answer) ==
    [question |-> question_text, options |-> Some(options),
     correct_answer |-> correct_answer, type |-> "mcq"]

TrueFalseRecord(question_text, correct_answer) ==
    [question |-> question_text, options |-> None,
     correct_answer |-> correct_answer, type |-> "true_false"]

(***************************************************************************)
(* parse_quiz_response: one block.                                         *)
(***************************************************************************)
\* if not block.strip() or 'Q:' not in block: continue
BlockIgnored(block) == Strip(block) = <<>> \/ ~Contains(block, Q_MARK)

\* question_match = re.search(r'Q:\s*(.+?)(?=\n[A-D]\)|Correct:|$)', block, re.DOTALL)
QuestionMatch(block) == SearchCapture(block, Q_MARK)

\* the options loop: for letter in ['A','B','C','D'], append the stripped
\* match of each letter that is found
ExtractOptions(block) ==
    LET m(k) == SearchCapture(block, << OptionLetters[k], ")" >>)
        acc[k \in 0..4] ==
            IF k = 0 THEN <<>>
            ELSE IF m(k).ok THEN Append(acc[k - 1], Strip(m(k).group))
            ELSE acc[k - 1]
    IN  acc[4]

\* letter_to_index = {'A': 0, 'B': 1, 'C': 2, 'D': 3} (1-based here)
LetterToIndex(letter) == CHOOSE k \in 1..4 : OptionLetters[k] = letter

\* the multiple-choice branch: the records the block adds (none or one)
ParseMcqBlock(block, question_text) ==
    LET options == ExtractOptions(block)
        correct_match == CorrectLetterMatch(block)
    IN  IF correct_match.ok /\ Len(options) = 4
        THEN << McqRecord(question_text, options,
                          options[LetterToIndex(Upper(correct_match.group[1]))]) >>
        ELSE <<>>

\* the true/false branch: the records the block adds (none or one)
ParseTrueFalseBlock(block, question_text) ==
    LET correct_match == CorrectBoolMatch(block)
    IN  IF correct_match.ok
        THEN << TrueFalseRecord(question_text, Capitalize(correct_match.group)) >>
        ELSE <<>>

\* the branch the loop body takes on a block: the two continue statements,
\* the multiple-choice branch or the true/false branch
BlockKind(block) ==
    IF BlockIgnored(block) \/ ~QuestionMatch(block).ok THEN "skip"
    ELSE IF HasOptionMarker(block) THEN "mcq"
    ELSE "true_false"

\* the body of the loop over question_blocks: the records the block adds
ParseBlock(block) ==
    IF BlockKind(block) = "skip" THEN <<>>
    ELSE IF BlockKind(block) = "mcq"
    THEN ParseMcqBlock(block, Strip(QuestionMatch(block).group))
    ELSE ParseTrueFalseBlock(block, Strip(QuestionMatch(block).group))

RECURSIVE ParseBlocks(_)
ParseBlocks(blocks) ==
    IF blocks = <<>> THEN <<>>
    ELSE ParseBlock(Head(blocks)) \o ParseBlocks(Tail(blocks))

\* parse_quiz_response(quiz_text, question_type); question_type is not read
ParseQuizResponse(s) == ParseBlocks(SplitBlocks(s))

(***************************************************************************)
(* The format generate_quiz asks the Model Client for, and the completions *)
(* the parser is run on: blocks in that format, well-formed or not.        *)
(***************************************************************************)
\* question texts: a plain one, and one that holds an option marker, as in
\* "What is (D)?"
PlainText == <<"k">>
MarkerText == <<"(", "D", ")">>
QuestionTexts == {PlainText, MarkerText}

\* the option texts of a block, by letter
OptionTexts == << <<"3">>, <<"4">>, <<"5">>, <<"6">> >>

\* what follows "Correct: " (<<>>: the block has no Correct line)
LetterTokens == { <<>>, <<"A">>, <<"D">>, <<"b">>, <<"E">> }
BoolTokens == { <<>>, TRUE_WORD, FALSE_WORD, <<"f","a","l","s","e">>, <<"E">> }

\* blocks with option lines (all four, or A-C only) and blocks without
McqSpecs ==
    [q : QuestionTexts, letters : { <<1, 2, 3, 4>>, <<1, 2, 3>> }, correct : LetterTokens]
TrueFalseSpecs ==
    [q : QuestionTexts, letters : { <<>> }, correct : BoolTokens]
BlockSpecs == McqSpecs \cup TrueFalseSpecs

RECURSIVE OptionLines(_)
OptionLines(letters) ==
    IF letters = <<>> THEN <<>>
    ELSE << NL, OptionLetters[Head(letters)], ")", SP >> \o OptionTexts[Head(letters)]
         \o OptionLines(Tail(letters))

\* Q: [question] / A) .. D) [option] / Correct: [answer]
FormatBlock(b) ==
    Q_MARK \o << SP >> \o b.q \o OptionLines(b.letters)
    \o (IF b.correct = <<>> THEN <<>> ELSE << NL >> \o CORRECT_MARK \o << SP >> \o b.correct)

RECURSIVE FormatBlocks(_)
FormatBlocks(bs) ==
    IF bs = <<>> THEN <<>> ELSE << FormatBlock(Head(bs)) >> \o FormatBlocks(Tail(bs))

\* response.text: the blocks, one per line group
FormatCompletion(bs) == Join(FormatBlocks(bs), << NL >>)

BlockSeqs(n) == UNION {[1..k -> BlockSpecs] : k \in 0..n}

(***************************************************************************)
(* parse_quiz_response as a process: one step per block.                   *)
(***************************************************************************)
ParseIdle ==
    /\ ppc = "idle"
    /\ p_spec = <<>>
    /\ p_text = <<>>
    /\ question_blocks = <<>>
    /\ p_idx = 0
    /\ p_questions = <<>>

ParseInit ==
    /\ ppc = "start"
    /\ p_spec \in BlockSeqs(MaxBlocks)
    /\ p_text = FormatCompletion(p_spec)
    /\ question_blocks = <<>>
    /\ p_idx = 0
    /\ p_questions = <<>>

\* questions = []; question_blocks = re.split(...)
PSplit ==
    /\ ppc = "start"
    /\ question_blocks' = SplitBlocks(p_text)
    /\ p_idx' = 1
    /\ p_questions' = <<>>
    /\ ppc' = "loop"
    /\ UNCHANGED << p_spec, p_text >>

\* a block that is skipped before any record is built
PSkipBlock ==
    /\ ppc = "loop"
    /\ p_idx <= Len(question_blocks)
    /\ BlockKind(question_blocks[p_idx]) = "skip"
    /\ p_idx' = p_idx + 1
    /\ UNCHANGED << ppc, p_spec, p_text, question_blocks, p_questions >>

\* a block with an option marker
PParseMcq ==
    /\ ppc = "loop"
    /\ p_idx <= Len(question_blocks)
    /\ BlockKind(question_blocks[p_idx]) = "mcq"
    /\ p_questions' = p_questions \o ParseBlock(question_blocks[p_idx])
    /\ p_idx' = p_idx + 1
    /\ UNCHANGED << ppc, p_spec, p_text, question_blocks >>

\* a block without option marker
PParseTrueFalse ==
    /\ ppc = "loop"
    /\ p_idx <= Len(question_blocks)
    /\ BlockKind(question_blocks[p_idx]) = "true_false"
    /\ p_questions' = p_questions \o ParseBlock(question_blocks[p_idx])
    /\ p_idx' = p_idx + 1
    /\ UNCHANGED << ppc, p_spec, p_text, question_blocks >>

\* return questions
PReturn ==
    /\ ppc = "loop"
    /\ p_idx > Len(question_blocks)
    /\ ppc' = "done"
    /\ UNCHANGED << p_spec, p_text, question_blocks, p_idx, p_questions >>

(***************************************************************************)
(* validate_quiz_questions.                                                *)
(***************************************************************************)
\* mutant of RecordFails: the options of a record are not looked at
RecordFails_NoOptionCheck(q) ==
    \/ q.question = <<>>
    \/ q.correct_answer = <<>>

\* mutant of RecordFails: the option count is checked for every record kind
RecordFails_AnyKind(q) ==
    \/ q.question = <<>>
    \/ q.correct_answer = <<>>
    \/ q.options.none
    \/ Len(q.options.items) # 4

\* the checks on one record: not q.get("question") or not q.get("correct_answer"),
\* and for an mcq record not q.get("options") or len(q["options"]) != 4
RecordFails(q) ==
    \/ q.question = <<>>
    \/ q.correct_answer = <<>>
    \/ /\ q.type = "mcq"
       /\ (q.options.none \/ q.options.items = <<>> \/ Len(q.options.items) # 4)

RECURSIVE AllRecordsPass(_)
\* the loop over the records, which returns False at the first failing one
AllRecordsPass(qs) ==
    IF qs = <<>> THEN TRUE
    ELSE IF RecordFails(Head(qs)) THEN FALSE
    ELSE AllRecordsPass(Tail(qs))

\* validate_quiz_questions(questions, min_questions)
ValidateQuizQuestions(qs, min) ==
    IF Len(qs) < min THEN FALSE ELSE AllRecordsPass(qs)

\* the records the validator is run on
FourOptions == << <<"3">>, <<"4">>, <<"5">>, <<"6">> >>
ThreeOptions == SubSeq(FourOptions, 1, 3)
FiveOptions == FourOptions \o << <<"7">> >>

\* records of both kinds with the question and the answer empty or not, and
\* records with each other shape of options
RecordDomain ==
    [question : {<<>>, PlainText}, options : {Some(FourOptions)},
     correct_answer : {<<>>, <<"4">>}, type : {"mcq"}]
    \cup
    [question : {<<>>, PlainText}, options : {None},
     correct_answer : {<<>>, TRUE_WORD}, type : {"true_false"}]
    \cup
    [question : {PlainText}, options : {None, Some(ThreeOptions), Some(FiveOptions)},
     correct_answer : {<<"4">>}, type : {"mcq"}]
    \cup
    [question : {PlainText}, options : {Some(ThreeOptions)},
     correct_answer : {TRUE_WORD}, type : {"true_false"}]
    \cup
    [question : {PlainText}, options : {Some(FourOptions)},
     correct_answer : {<<"9">>}, type : {"mcq"}]

RecordSeqs(n) == UNION {[1..k -> RecordDomain] : k \in 0..n}

ValidateIdle ==
    /\ vpc = "idle"
    /\ v_questions = <<>>
    /\ min_questions = 0
    /\ v_idx = 0
    /\ v_result = "None"

ValidateInit ==
    /\ vpc = "start"
    /\ v_questions \in RecordSeqs(MaxRecords)
    /\ min_questions \in 0..(MaxRecords + 1)
    /\ v_idx = 0
    /\ v_result = "None"

\* if len(questions) < min_questions: return False
VTooFew ==
    /\ vpc = "start"
    /\ Len(v_questions) < min_questions
    /\ v_result' = "False"
    /\ vpc' = "done"
    /\ UNCHANGED << v_questions, min_questions, v_idx >>

\* enough records: enter the loop
VEnterLoop ==
    /\ vpc = "start"
    /\ ~(Len(v_questions) < min_questions)
    /\ v_idx' = 1
    /\ vpc' = "loop"
    /\ UNCHANGED << v_questions, min_questions, v_result >>

\* a record that fails: return False
VRecordFails ==
    /\ vpc = "loop"
    /\ v_idx <= Len(v_questions)
    /\ RecordFails(v_questions[v_idx]) = TRUE
    /\ v_result' = "False"
    /\ vpc' = "done"
    /\ UNCHANGED << v_questions, min_questions, v_idx >>

\* a record that passes: next record
VRecordPasses ==
    /\ vpc = "loop"
    /\ v_idx <= Len(v_questions)
    /\ ~RecordFails(v_questions[v_idx])
    /\ v_idx' = v_idx + 1
    /\ UNCHANGED << vpc, v_questions, min_questions, v_result >>

\* return True
VReturnTrue ==
    /\ vpc = "loop"
    /\ v_idx > Len(v_questions)
    /\ v_result' = "True"
    /\ vpc' = "done"
    /\ UNCHANGED << v_questions, min_questions, v_idx >>

(***************************************************************************)
(* chunk_text.                                                             *)
(***************************************************************************)
RECURSIVE SkipWord(_, _)
\* first position at or after p that holds whitespace (Len(s)+1 if none)
SkipWord(s, p) ==
    IF p > Len(s) THEN Len(s) + 1
    ELSE IF s[p] \in Whitespace THEN p
    ELSE SkipWord(s, p + 1)

RECURSIVE SplitWords(_)
\* text.split(): the maximal runs of non-whitespace characters
SplitWords(s) ==
    LET start == SkipSpace(s, 1)
        stop  == SkipWord(s, start)
    IN  IF start > Len(s) THEN <<>>
        ELSE << SubSeq(s, start, stop - 1) >> \o SplitWords(SubSeq(s, stop, Len(s)))

\* mutant of WordLength: the separating space is not counted
WordLength_NoSpace(word) == Len(word)

\* word_length = len(word) + 1
WordLength(word) == Len(word) + 1

\* mutant of StartsNewChunk: a word that fills the budget exactly does not fit
StartsNewChunk_Eager(cur_len, word, max_len) == cur_len + WordLength(word) >= max_len

\* if current_length + word_length > max_length
StartsNewChunk(cur_len, word, max_len) == cur_len + WordLength(word) > max_len

ChunkAlphabet == {"a", "b", SP}
ChunkTexts(n) == UNION {[1..k -> ChunkAlphabet] : k \in 0..n}

ChunkIdle ==
    /\ cpc = "idle"
    /\ c_text = <<>>
    /\ max_length = 0
    /\ words = <<>>
    /\ w_idx = 0
    /\ chunks = <<>>
    /\ current_chunk = <<>>
    /\ current_length = 0

ChunkInit ==
    /\ cpc = "start"
    /\ c_text \in ChunkTexts(MaxTextLen)
    /\ max_length \in 0..MaxChunkLen
    /\ words = <<>>
    /\ w_idx = 0
    /\ chunks = <<>>
    /\ current_chunk = <<>>
    /\ current_length = 0

\* words = text.split(); chunks = []; current_chunk = []; current_length = 0
CSplit ==
    /\ cpc = "start"
    /\ words' = SplitWords(c_text)
    /\ w_idx' = 1
    /\ chunks' = <<>>
    /\ current_chunk' = <<>>
    /\ current_length' = 0
    /\ cpc' = "loop"
    /\ UNCHANGED << c_text, max_length >>

\* the word does not fit: close the current chunk and start a new one with it
CFlush ==
    /\ cpc = "loop"
    /\ w_idx <= Len(words)
    /\ StartsNewChunk(current_length, words[w_idx], max_length)
    /\ chunks' = Append(chunks, Join(current_chunk, << SP >>))
    /\ current_chunk' = << words[w_idx] >>
    /\ current_length' = WordLength(words[w_idx])
    /\ w_idx' = w_idx + 1
    /\ UNCHANGED << cpc, c_text, max_length, words >>

\* the word fits: append it to the current chunk
CAppend ==
    /\ cpc = "loop"
    /\ w_idx <= Len(words)
    /\ ~StartsNewChunk(current_length, words[w_idx], max_length)
    /\ current_chunk' = Append(current_chunk, words[w_idx])
    /\ current_length' = current_length + WordLength(words[w_idx])
    /\ w_idx' = w_idx + 1
    /\ UNCHANGED << cpc, c_text, max_length, words, chunks >>

\* if current_chunk: chunks.append(' '.join(current_chunk)); return chunks
CReturn ==
    /\ cpc = "loop"
    /\ w_idx > Len(words)
    /\ chunks' = IF current_chunk # <<>>
                 THEN Append(chunks, Join(current_chunk, << SP >>))
                 ELSE chunks
    /\ cpc' = "done"
    /\ UNCHANGED << c_text, max_length, words, w_idx, current_chunk, current_length >>

(***************************************************************************)
(* generate_quiz and the Model Client.                                     *)
(***************************************************************************)
QuestionTypes == {"mcq", "true_false", "mixed"}

\* the prompt generate_quiz builds: the counts it asks for and the text
BuildPrompt(t, n, qt) ==
    IF qt = "mcq"
    THEN [kind |-> "mcq", mcq_count |-> n, tf_count |-> 0, text |-> t]
    ELSE IF qt = "true_false"
    THEN [kind |-> "true_false", mcq_count |-> 0, tf_count |-> n, text |-> t]
    ELSE [kind |-> "mixed", mcq_count |-> n \div 2, tf_count |-> n - (n \div 2), text |-> t]

\* the messages of the failures model.generate_content can raise
ClientErrors == {"quota exceeded", "network unreachable"}

\* except Exception as e: raise Exception(f"Quiz generation failed: {str(e)}")
QuizGenerationFailed(msg) ==
    [raised |-> TRUE, type |-> "Exception", message |-> << "Quiz generation failed: ", msg >>]

\* return questions when the loop body never ran: the local is unbound
UnboundQuestions ==
    [raised |-> TRUE, type |-> "UnboundLocalError", message |-> << "questions" >>]

NoError == [raised |-> FALSE, type |-> "", message |-> <<>>]

\* the completions the Model Client answers with: blocks in the asked format,
\* some of them malformed, and a completion whose D) line is empty
TrueFalseBlock == [q |-> PlainText, letters |-> <<>>, correct |-> <<"T","r","u","e">>]
McqBlock == [q |-> PlainText, letters |-> <<1, 2, 3, 4>>, correct |-> <<"D">>]
BadLetterBlock == [q |-> PlainText, letters |-> <<1, 2, 3, 4>>, correct |-> <<"E">>]

EmptyAnswerCompletion ==
    Q_MARK \o << SP >> \o PlainText \o << NL >> \o CORRECT_MARK \o << SP, "D" >>
    \o OptionLines(<<1, 2, 3>>) \o << NL, "D", ")", NL, NL >>
    \o FormatBlock(TrueFalseBlock)

ClientCompletions ==
    { FormatCompletion(<<>>),
      FormatCompletion(<< TrueFalseBlock >>),
      FormatCompletion(<< McqBlock >>),
      FormatCompletion(<< TrueFalseBlock, McqBlock >>),
      FormatCompletion(<< BadLetterBlock, TrueFalseBlock >>),
      FormatCompletion(<< TrueFalseBlock, McqBlock, TrueFalseBlock >>),
      EmptyAnswerCompletion }

(***************************************************************************)
(* regenerate_if_needed.                                                   *)
(***************************************************************************)
Unbound == [bound |-> FALSE, value |-> <<>>]
Bound(v) == [bound |-> TRUE, value |-> v]

NotReturned == [returned |-> FALSE, value |-> <<>>]
Returned(v) == [returned |-> TRUE, value |-> v]

\* mutant of Threshold: the full count is required
Threshold_Full(n) == n

\* min_questions=max(1, num_questions - 2)
Threshold(n) == Max2(1, n - 2)

\* validate_quiz_questions(questions, min_questions=max(1, num_questions - 2))
AttemptValidates(qs, n) == ValidateQuizQuestions(qs, Threshold(n))

RetryIdle ==
    /\ pc = "idle"
    /\ text = <<>>
    /\ num_questions = 0
    /\ question_type = "mixed"
    /\ max_attempts = 0
    /\ attempt = 0
    /\ quiz_text = <<>>
    /\ questions = Unbound
    /\ result = NotReturned
    /\ error = NoError
    /\ calls = 0
    /\ outstanding = 0
    /\ prompts = <<>>
    /\ completions = <<>>

RetryInit ==
    /\ pc = "loop"
    /\ text = PlainText
    /\ num_questions \in 1..MaxNumQuestions
    /\ question_type \in QuestionTypes
    /\ max_attempts \in (-1)..MaxAttempts
    /\ attempt = 0
    /\ quiz_text = <<>>
    /\ questions = Unbound
    /\ result = NotReturned
    /\ error = NoError
    /\ calls = 0
    /\ outstanding = 0
    /\ prompts = <<>>
    /\ completions = <<>>

\* for attempt in range(max_attempts): one more iteration
LoopNext ==
    /\ pc = "loop"
    /\ attempt < max_attempts
    /\ pc' = "generate"
    /\ UNCHANGED << text, num_questions, question_type, max_attempts, attempt, quiz_text,
                    questions, result, error, calls, outstanding, prompts, completions >>

\* generate_quiz: build the prompt and call model.generate_content(prompt)
IssueCall ==
    /\ pc = "generate"
    /\ prompts' = Append(prompts, BuildPrompt(text, num_questions, question_type))
    /\ calls' = calls + 1
    /\ outstanding' = outstanding + 1
    /\ pc' = "wait"
    /\ UNCHANGED << text, num_questions, question_type, max_attempts, attempt, quiz_text,
                    questions, result, error, completions >>

\* the Model Client answers: quiz_text = response.text
ClientReturn ==
    /\ pc = "wait"
    /\ \E c \in ClientCompletions :
          /\ quiz_text' = c
          /\ completions' = Append(completions, c)
    /\ outstanding' = outstanding - 1
    /\ pc' = "parse"
    /\ UNCHANGED << text, num_questions, question_type, max_attempts, attempt,
                    questions, result, error, calls, prompts >>

\* mutant of ClientFail: the failure is caught and the attempt goes on with an
\* empty completion
ClientFail_Swallowed ==
    /\ pc = "wait"
    /\ quiz_text' = <<>>
    /\ outstanding' = outstanding - 1
    /\ pc' = "parse"
    /\ UNCHANGED << text, num_questions, question_type, max_attempts, attempt,
                    questions, result, error, calls, prompts, completions >>

\* the Model Client fails: generate_quiz re-raises, regenerate_if_needed does
\* not catch
ClientFail ==
    /\ pc = "wait"
    /\ \E msg \in ClientErrors : error' = QuizGenerationFailed(msg)
    /\ outstanding' = outstanding - 1
    /\ pc' = "raised"
    /\ UNCHANGED << text, num_questions, question_type, max_attempts, attempt, quiz_text,
                    questions, result, calls, prompts, completions >>

\* mutant of ParseAttempt: the records of the attempts are accumulated
ParseAttempt_Accumulates ==
    /\ pc = "parse"
    /\ questions' = Bound(questions.value \o ParseQuizResponse(quiz_text))
    /\ pc' = "validate"
    /\ UNCHANGED << text, num_questions, question_type, max_attempts, attempt, quiz_text,
                    result, error, calls, outstanding, prompts, completions >>

\* questions = parse_quiz_response(quiz_text, question_type)
ParseAttempt ==
    /\ pc = "parse"
    /\ questions' = Bound(ParseQuizResponse(quiz_text))
    /\ pc' = "validate"
    /\ UNCHANGED << text, num_questions, question_type, max_attempts, attempt, quiz_text,
                    result, error, calls, outstanding, prompts, completions >>

\* mutant of AcceptAttempt: a validating attempt does not end the loop
AcceptAttempt_KeepsRetrying ==
    /\ pc = "validate"
    /\ AttemptValidates(questions.value, num_questions)
    /\ attempt' = attempt + 1
    /\ pc' = "loop"
    /\ UNCHANGED << text, num_questions, question_type, max_attempts, quiz_text,
                    questions, result, error, calls, outstanding, prompts, completions >>

\* if validate_quiz_questions(...): return questions
AcceptAttempt ==
    /\ pc = "validate"
    /\ AttemptValidates(questions.value, num_questions)
    /\ result' = Returned(questions.value)
    /\ pc' = "done"
    /\ UNCHANGED << text, num_questions, question_type, max_attempts, attempt, quiz_text,
                    questions, error, calls, outstanding, prompts, completions >>

\* mutant of RejectAttempt: a rejected attempt is not counted
RejectAttempt_NoCount ==
    /\ pc = "validate"
    /\ ~AttemptValidates(questions.value, num_questions)
    /\ pc' = "loop"
    /\ UNCHANGED << text, num_questions, question_type, max_attempts, attempt, quiz_text,
                    questions, result, error, calls, outstanding, prompts, completions >>

\* validation failed: the next iteration
RejectAttempt ==
    /\ pc = "validate"
    /\ ~AttemptValidates(questions.value, num_questions)
    /\ attempt' = attempt + 1
    /\ pc' = "loop"
    /\ UNCHANGED << text, num_questions, question_type, max_attempts, quiz_text,
                    questions, result, error, calls, outstanding, prompts, completions >>

\* the loop is over: return questions (whatever the last attempt parsed)
ReturnLast ==
    /\ pc = "loop"
    /\ ~(attempt < max_attempts)
    /\ questions.bound
    /\ result' = Returned(questions.value)
    /\ pc' = "done"
    /\ UNCHANGED << text, num_questions, question_type, max_attempts, attempt, quiz_text,
                    questions, error, calls, outstanding, prompts, completions >>

\* the loop never ran: return questions reads an unbound local
RaiseUnbound ==
    /\ pc = "loop"
    /\ ~(attempt < max_attempts)
    /\ ~questions.bound
    /\ error' = UnboundQuestions
    /\ pc' = "raised"
    /\ UNCHANGED << text, num_questions, question_type, max_attempts, attempt, quiz_text,
                    questions, result, calls, outstanding, prompts, completions >>

(***************************************************************************)
(* File names, extraction and error messages (utils.py, app.py).           *)
(* A message is the sequence of the string fragments it is formatted from. *)
(***************************************************************************)
LowerOf == [c \in {Uppers[i] : i \in 1..26} |-> Lowers[CHOOSE i \in 1..26 : Uppers[i] = c]]

\* str.lower()
Lower(s) == [i \in 1..Len(s) |-> IF s[i] \in DOMAIN LowerOf THEN LowerOf[s[i]] ELSE s[i]]

RECURSIVE LastIndexOf(_, _, _)
\* last position at or before p that holds ch (0 if none)
LastIndexOf(s, ch, p) ==
    IF p = 0 THEN 0
    ELSE IF s[p] = ch THEN p
    ELSE LastIndexOf(s, ch, p - 1)

RECURSIVE SkipDots(_, _)
\* first position at or after p that does not hold a dot
SkipDots(s, p) ==
    IF p > Len(s) THEN Len(s) + 1
    ELSE IF s[p] # "." THEN p
    ELSE SkipDots(s, p + 1)

\* os.path.splitext(path)[1]: from the last dot of the last component on,
\* unless that dot is among the leading dots of the component
SplitextExt(path) ==
    LET sep  == LastIndexOf(path, "/", Len(path))
        dot  == LastIndexOf(path, ".", Len(path))
        name == SkipDots(path, sep + 1)
    IN  IF dot > sep /\ dot > name THEN SubSeq(path, dot, Len(path)) ELSE <<>>

\* os.path.splitext(...)[1].lower()
FileExt(path) == Lower(SplitextExt(path))

TXT == << ".", "t", "x", "t" >>
PDF == << ".", "p", "d", "f" >>
DOCX == << ".", "d", "o", "c", "x" >>

\* allowed_extensions = [".txt", ".pdf", ".docx"]
AllowedExtensions == { TXT, PDF, DOCX }

\* UPLOAD_DIR = "uploads"
UPLOAD_DIR == << "u", "p", "l", "o", "a", "d", "s" >>

\* os.path.join(UPLOAD_DIR, file.filename)
FilePath(filename) == UPLOAD_DIR \o << "/" >> \o filename

\* the names of the uploaded files
Filenames ==
    { << "a" >> \o TXT, << "a", ".", "P", "D", "F" >>, << "a" >> \o DOCX,
      << "a", ".", "m", "d" >>, TXT }

\* what an uploaded file holds: readable text, no text at all, or bytes
\* that are not of the format the name announces
Contents == { "text", "blank", "corrupt" }

\* mutant of Wrap: the error is re-raised as it is
Wrap_Reraise(prefix, message) == message

\* raise Exception(f"<prefix>{str(e)}")
Wrap(prefix, message) == prefix \o message

Extracted(t) == [raised |-> FALSE, cause |-> <<>>, message |-> <<>>, text |-> t]
ExtractFailed(c, m) == [raised |-> TRUE, cause |-> c, message |-> m, text |-> ""]

\* extract_text_from_txt: latin-1 decodes whatever utf-8 does not
ExtractTextFromTxt(content) ==
    IF content = "text" THEN Extracted("text")
    ELSE IF content = "blank" THEN Extracted("")
    ELSE Extracted("mojibake")

\* extract_text_from_pdf
ExtractTextFromPdf(content) ==
    IF content = "text" THEN Extracted("text")
    ELSE LET raw == IF content = "blank"
                    THEN << "No text could be extracted from PDF" >>
                    ELSE << "EOF marker not found" >>
         IN  ExtractFailed(raw, Wrap(<< "PDF extraction failed: " >>, raw))

\* extract_text_from_docx
ExtractTextFromDocx(content) ==
    IF content = "text" THEN Extracted("text")
    ELSE LET raw == IF content = "blank"
                    THEN << "No text could be extracted from DOCX" >>
                    ELSE << "File is not a zip file" >>
         IN  ExtractFailed(raw, Wrap(<< "DOCX extraction failed: " >>, raw))

\* extract_text_from_file: cause is the error its try block raised, message
\* the error its caller observes
ExtractTextFromFile(file_path, content) ==
    LET file_ext == FileExt(file_path)
        inner == IF file_ext = TXT THEN ExtractTextFromTxt(content)
                 ELSE IF file_ext = PDF THEN ExtractTextFromPdf(content)
                 ELSE IF file_ext = DOCX THEN ExtractTextFromDocx(content)
                 ELSE ExtractFailed(<<>>, << "Unsupported file format: " >> \o file_ext)
    IN  IF inner.raised
        THEN ExtractFailed(inner.message,
                           Wrap(<< "Failed to extract text from " >> \o file_path \o << ": " >>,
                                inner.message))
        ELSE inner

(***************************************************************************)
(* The service: upload_file requests (app.py) and calls of the two         *)
(* functions that call the Model Client, one request at a time.            *)
(***************************************************************************)
\* if len(text) > 4000: chunk_text(text, 4000)
SummaryChunkBudget == 4000

SummaryTypes == { "concise", "detailed", "bullet_points", "casual" }

NoArgs == [text_len |-> 0, type |-> "", num_questions |-> 0, chunk_count |-> 0]

NoException == [kind |-> "none", status |-> 0, message |-> <<>>]
PlainException(m) == [kind |-> "Exception", status |-> 0, message |-> m]
HttpException(st, d) == [kind |-> "HTTPException", status |-> st, message |-> d]

\* f"File type not supported. Allowed: {', '.join(allowed_extensions)}"
FileTypeNotSupported ==
    << "File type not supported. Allowed: " >> \o TXT \o << ", " >> \o PDF \o << ", " >> \o DOCX

\* str(e): the message of a plain exception; for an HTTPException the
\* installed framework version decides ("400: <detail>" or the empty string)
StrOf(e) ==
    IF e.kind = "HTTPException"
    THEN { <<>>, << "400", ": " >> \o e.message }
    ELSE { e.message }

\* the failures of open(file_path, "wb") and of shutil.copyfileobj
SaveErrors ==
    { [message |-> << "[Errno 13] Permission denied" >>, created |-> FALSE],
      [message |-> << "[Errno 28] No space left on device" >>, created |-> TRUE] }

\* except Exception as e: raise Exception(f"Summary generation failed: {str(e)}")
SummaryGenerationFailed(msg) ==
    [raised |-> TRUE, type |-> "Exception",
     message |-> Wrap(<< "Summary generation failed: " >>, << msg >>)]

NotRaised == [raised |-> FALSE, message |-> <<>>]
Raised(m) == [raised |-> TRUE, message |-> m]

NoResponse == [status |-> 0, detail |-> <<>>, text |-> ""]

ServiceIdle ==
    /\ spc = "idle"
    /\ s_op = ""
    /\ s_args = NoArgs
    /\ s_filename = <<>>
    /\ s_content = ""
    /\ disk = {}
    /\ s_exc = NoException
    /\ s_stage = "none"
    /\ s_raised = NotRaised
    /\ s_observed = NoError
    /\ response = NoResponse
    /\ s_calls_left = 0
    /\ handled = 0

ServiceInit ==
    /\ spc = "accept"
    /\ s_op = ""
    /\ s_args = NoArgs
    /\ s_filename = <<>>
    /\ s_content = ""
    /\ disk = {}
    /\ s_exc = NoException
    /\ s_stage = "none"
    /\ s_raised = NotRaised
    /\ s_observed = NoError
    /\ response = NoResponse
    /\ s_calls_left = 0
    /\ handled = 0

\* a request of the given kind starts: nothing raised, nothing answered yet
Begin(op, args, filename, content, calls_left, next) ==
    /\ spc = "accept"
    /\ handled < MaxRequests
    /\ s_op' = op
    /\ s_args' = args
    /\ s_filename' = filename
    /\ s_content' = content
    /\ s_exc' = NoException
    /\ s_stage' = "none"
    /\ s_raised' = NotRaised
    /\ s_observed' = NoError
    /\ response' = NoResponse
    /\ s_calls_left' = calls_left
    /\ spc' = next
    /\ UNCHANGED << disk, handled >>

\* POST /api/upload with a file
UReceive ==
    \E f \in Filenames, c \in Contents :
        Begin("upload_file", NoArgs, f, c, 0, "type_check")

\* if file_ext not in allowed_extensions: raise HTTPException(400, ...)
UTypeRejected ==
    /\ spc = "type_check"
    /\ FileExt(s_filename) \notin AllowedExtensions
    /\ s_exc' = HttpException(400, FileTypeNotSupported)
    /\ s_stage' = "type_check"
    /\ spc' = "except"
    /\ UNCHANGED << s_op, s_args, s_filename, s_content, disk, s_raised, s_observed,
                    response, s_calls_left, handled >>

\* the extension is allowed
UTypeAccepted ==
    /\ spc = "type_check"
    /\ FileExt(s_filename) \in AllowedExtensions
    /\ spc' = "save"
    /\ UNCHANGED << s_op, s_args, s_filename, s_content, disk, s_exc, s_stage, s_raised,
                    s_observed, response, s_calls_left, handled >>

\* with open(file_path, "wb") as buffer: shutil.copyfileobj(file.file, buffer)
USave ==
    /\ spc = "save"
    /\ disk' = disk \cup { FilePath(s_filename) }
    /\ spc' = "extract"
    /\ UNCHANGED << s_op, s_args, s_filename, s_content, s_exc, s_stage, s_raised,
                    s_observed, response, s_calls_left, handled >>

\* saving fails: open raises, or the copy raises after the file was created
USaveFails ==
    /\ spc = "save"
    /\ \E e \in SaveErrors :
          /\ s_exc' = PlainException(e.message)
          /\ disk' = IF e.created THEN disk \cup { FilePath(s_filename) } ELSE disk
    /\ s_stage' = "save"
    /\ spc' = "except"
    /\ UNCHANGED << s_op, s_args, s_filename, s_content, s_raised, s_observed,
                    response, s_calls_left, handled >>

\* text_content = extract_text_from_file(file_path)
UExtract ==
    /\ spc = "extract"
    /\ ~ExtractTextFromFile(FilePath(s_filename), s_content).raised
    /\ response' = [response EXCEPT
                       !.text = ExtractTextFromFile(FilePath(s_filename), s_content).text]
    /\ spc' = "remove"
    /\ UNCHANGED << s_op, s_args, s_filename, s_content, disk, s_exc, s_stage, s_raised,
                    s_observed, s_calls_left, handled >>

\* extract_text_from_file raises: an extractor failed and the failure was
\* wrapped on its way out
UExtractFails ==
    /\ spc = "extract"
    /\ ExtractTextFromFile(FilePath(s_filename), s_content).raised
    /\ s_raised' = Raised(ExtractTextFromFile(FilePath(s_filename), s_content).cause)
    /\ s_observed' = [raised |-> TRUE, type |-> "Exception",
                      message |-> ExtractTextFromFile(FilePath(s_filename), s_content).message]
    /\ s_exc' = PlainException(ExtractTextFromFile(FilePath(s_filename), s_content).message)
    /\ s_stage' = "extract"
    /\ spc' = "except"
    /\ UNCHANGED << s_op, s_args, s_filename, s_content, disk, response, s_calls_left,
                    handled >>

\* os.remove(file_path)
URemove ==
    /\ spc = "remove"
    /\ disk' = disk \ { FilePath(s_filename) }
    /\ spc' = "return"
    /\ UNCHANGED << s_op, s_args, s_filename, s_content, s_exc, s_stage, s_raised,
                    s_observed, response, s_calls_left, handled >>

\* return {"success": True, ...}
UReturn ==
    /\ spc = "return"
    /\ response' = [response EXCEPT !.status = 200]
    /\ handled' = handled + 1
    /\ spc' = "accept"
    /\ UNCHANGED << s_op, s_args, s_filename, s_content, disk, s_exc, s_stage, s_raised,
                    s_observed, s_calls_left >>

\* except Exception as e: raise HTTPException(status_code=500, detail=str(e))
UExcept ==
    /\ spc = "except"
    /\ \E d \in StrOf(s_exc) :
          response' = [status |-> 500, detail |-> d, text |-> ""]
    /\ handled' = handled + 1
    /\ spc' = "accept"
    /\ UNCHANGED << s_op, s_args, s_filename, s_content, disk, s_exc, s_stage, s_raised,
                    s_observed, s_calls_left >>

\* generate_summary(text, summary_type): one call per chunk and a final one
\* for a text of more than 4000 characters, one call otherwise
SReceive ==
    \E len \in { 0, SummaryChunkBudget, SummaryChunkBudget + 1 }, ty \in SummaryTypes :
        \E n \in IF len > SummaryChunkBudget THEN 2..MaxSummaryChunks ELSE {0} :
            Begin("generate_summary",
                  [text_len |-> len, type |-> ty, num_questions |-> 0, chunk_count |-> n],
                  <<>>, "", IF len > SummaryChunkBudget THEN n + 1 ELSE 1, "summary_client")

\* response = model.generate_content(prompt): the client answers
SummaryClientReturn ==
    /\ spc = "summary_client"
    /\ s_calls_left > 0
    /\ s_calls_left' = s_calls_left - 1
    /\ UNCHANGED << spc, s_op, s_args, s_filename, s_content, disk, s_exc, s_stage,
                    s_raised, s_observed, response, handled >>

\* the client fails: generate_summary raises a new Exception
SummaryClientFail ==
    /\ spc = "summary_client"
    /\ s_calls_left > 0
    /\ \E msg \in ClientErrors :
          /\ s_raised' = Raised(<< msg >>)
          /\ s_observed' = SummaryGenerationFailed(msg)
    /\ handled' = handled + 1
    /\ spc' = "accept"
    /\ UNCHANGED << s_op, s_args, s_filename, s_content, disk, s_exc, s_stage, response,
                    s_calls_left >>

\* return response.text / return final_response.text
SummaryReturn ==
    /\ spc = "summary_client"
    /\ s_calls_left = 0
    /\ response' = [response EXCEPT !.text = "summary"]
    /\ handled' = handled + 1
    /\ spc' = "accept"
    /\ UNCHANGED << s_op, s_args, s_filename, s_content, disk, s_exc, s_stage, s_raised,
                    s_observed, s_calls_left >>

\* generate_quiz(text, num_questions, question_type): one call
QReceive ==
    \E n \in 1..MaxNumQuestions, qt \in QuestionTypes :
        Begin("generate_quiz",
              [text_len |-> Len(PlainText), type |-> qt, num_questions |-> n, chunk_count |-> 0],
              <<>>, "", 1, "quiz_client")

\* return response.text
QuizClientReturn ==
    /\ spc = "quiz_client"
    /\ s_calls_left' = s_calls_left - 1
    /\ response' = [response EXCEPT !.text = "quiz"]
    /\ handled' = handled + 1
    /\ spc' = "accept"
    /\ UNCHANGED << s_op, s_args, s_filename, s_content, disk, s_exc, s_stage, s_raised,
                    s_observed >>

\* the client fails: generate_quiz raises a new Exception
QuizClientFail ==
    /\ spc = "quiz_client"
    /\ \E msg \in ClientErrors :
          /\ s_raised' = Raised(<< msg >>)
          /\ s_observed' = QuizGenerationFailed(msg)
    /\ handled' = handled + 1
    /\ spc' = "accept"
    /\ UNCHANGED << s_op, s_args, s_filename, s_content, disk, s_exc, s_stage, response,
                    s_calls_left >>

(***************************************************************************)
(* Specifications.                                                         *)
(***************************************************************************)
Init == RetryInit /\ ParseIdle /\ ValidateIdle /\ ChunkIdle /\ ServiceIdle

Next ==
    \/ LoopNext /\ UNCHANGED << parseVars, validateVars, chunkVars, serviceVars >>
    \/ IssueCall /\ UNCHANGED << parseVars, validateVars, chunkVars, serviceVars >>
    \/ ClientReturn /\ UNCHANGED << parseVars, validateVars, chunkVars, serviceVars >>
    \/ ClientFail /\ UNCHANGED << parseVars, validateVars, chunkVars, serviceVars >>
    \/ ParseAttempt /\ UNCHANGED << parseVars, validateVars, chunkVars, serviceVars >>
    \/ AcceptAttempt /\ UNCHANGED << parseVars, validateVars, chunkVars, serviceVars >>
    \/ RejectAttempt /\ UNCHANGED << parseVars, validateVars, chunkVars, serviceVars >>
    \/ ReturnLast /\ UNCHANGED << parseVars, validateVars, chunkVars, serviceVars >>
    \/ RaiseUnbound /\ UNCHANGED << parseVars, validateVars, chunkVars, serviceVars >>

\* regenerate_if_needed against a Model Client
Spec == Init /\ [][Next]_vars

ParseSpecInit == RetryIdle /\ ParseInit /\ ValidateIdle /\ ChunkIdle /\ ServiceIdle

ParseNext ==
    \/ PSplit /\ UNCHANGED << retryVars, validateVars, chunkVars, serviceVars >>
    \/ PSkipBlock /\ UNCHANGED << retryVars, validateVars, chunkVars, serviceVars >>
    \/ PParseMcq /\ UNCHANGED << retryVars, validateVars, chunkVars, serviceVars >>
    \/ PParseTrueFalse /\ UNCHANGED << retryVars, validateVars, chunkVars, serviceVars >>
    \/ PReturn /\ UNCHANGED << retryVars, validateVars, chunkVars, serviceVars >>

\* parse_quiz_response on completions assembled from blocks
SpecParse == ParseSpecInit /\ [][ParseNext]_vars

ValidateSpecInit == RetryIdle /\ ParseIdle /\ ValidateInit /\ ChunkIdle /\ ServiceIdle

ValidateNext ==
    \/ VTooFew /\ UNCHANGED << retryVars, parseVars, chunkVars, serviceVars >>
    \/ VEnterLoop /\ UNCHANGED << retryVars, parseVars, chunkVars, serviceVars >>
    \/ VRecordFails /\ UNCHANGED << retryVars, parseVars, chunkVars, serviceVars >>
    \/ VRecordPasses /\ UNCHANGED << retryVars, parseVars, chunkVars, serviceVars >>
    \/ VReturnTrue /\ UNCHANGED << retryVars, parseVars, chunkVars, serviceVars >>

\* validate_quiz_questions on record lists
SpecValidate == ValidateSpecInit /\ [][ValidateNext]_vars

ChunkSpecInit == RetryIdle /\ ParseIdle /\ ValidateIdle /\ ChunkInit /\ ServiceIdle

ChunkNext ==
    \/ CSplit /\ UNCHANGED << retryVars, parseVars, validateVars, serviceVars >>
    \/ CFlush /\ UNCHANGED << retryVars, parseVars, validateVars, serviceVars >>
    \/ CAppend /\ UNCHANGED << retryVars, parseVars, validateVars, serviceVars >>
    \/ CReturn /\ UNCHANGED << retryVars, parseVars, validateVars, serviceVars >>

\* chunk_text on texts
SpecChunk == ChunkSpecInit /\ [][ChunkNext]_vars

ServiceSpecInit == RetryIdle /\ ParseIdle /\ ValidateIdle /\ ChunkIdle /\ ServiceInit

ServiceNext ==
    \/ UReceive /\ UNCHANGED << retryVars, parseVars, validateVars, chunkVars >>
    \/ UTypeRejected /\ UNCHANGED << retryVars, parseVars, validateVars, chunkVars >>
    \/ UTypeAccepted /\ UNCHANGED << retryVars, parseVars, validateVars, chunkVars >>
    \/ USave /\ UNCHANGED << retryVars, parseVars, validateVars, chunkVars >>
    \/ USaveFails /\ UNCHANGED << retryVars, parseVars, validateVars, chunkVars >>
    \/ UExtract /\ UNCHANGED << retryVars, parseVars, validateVars, chunkVars >>
    \/ UExtractFails /\ UNCHANGED << retryVars, parseVars, validateVars, chunkVars >>
    \/ URemove /\ UNCHANGED << retryVars, parseVars, validateVars, chunkVars >>
    \/ UReturn /\ UNCHANGED << retryVars, parseVars, validateVars, chunkVars >>
    \/ UExcept /\ UNCHANGED << retryVars, parseVars, validateVars, chunkVars >>
    \/ SReceive /\ UNCHANGED << retryVars, parseVars, validateVars, chunkVars >>
    \/ SummaryClientReturn /\ UNCHANGED << retryVars, parseVars, validateVars, chunkVars >>
    \/ SummaryClientFail /\ UNCHANGED << retryVars, parseVars, validateVars, chunkVars >>
    \/ SummaryReturn /\ UNCHANGED << retryVars, parseVars, validateVars, chunkVars >>
    \/ QReceive /\ UNCHANGED << retryVars, parseVars, validateVars, chunkVars >>
    \/ QuizClientReturn /\ UNCHANGED << retryVars, parseVars, validateVars, chunkVars >>
    \/ QuizClientFail /\ UNCHANGED << retryVars, parseVars, validateVars, chunkVars >>

\* a server that handles upload_file requests and calls of generate_summary
\* and generate_quiz, one after the other
SpecService == ServiceSpecInit /\ [][ServiceNext]_vars

(***************************************************************************)
(* Properties of regenerate_if_needed (specification Spec).                *)
(* completions is the log of what the Model Client answered, in order:     *)
(* attempt k parsed completions[k].                                        *)
(***************************************************************************)
\* the records attempt k parsed
Parsed(k) == ParseQuizResponse(completions[k])

\* attempt k's records pass the validation of regenerate_if_needed
Valid(k) == AttemptValidates(Parsed(k), num_questions)

NoneValid == \A k \in 1..Len(completions) : ~Valid(k)

\* C1: when attempt k is the first whose parsed records validate, the Model
\* Client is called exactly k times (no call follows a validating attempt) and
\* the value returned is exactly attempt k's parsed records.
C1_FirstValidAttemptReturned ==
    \A k \in 1..Len(completions) :
        Valid(k) =>
            /\ k = Len(completions)
            /\ calls = k
            /\ pc \in {"parse", "validate", "done"}
            /\ (pc = "done" => result = Returned(Parsed(k)))

\* the second attempt was the first to validate, and was returned
C1_Witness ==
    /\ pc = "done"
    /\ Len(completions) = 2
    /\ ~Valid(1)
    /\ Valid(2)
    /\ calls = 2
    /\ result = Returned(Parsed(2))

\* C2: when none of the max_attempts (>= 1) attempts validates, the function
\* does not raise, has called the Model Client exactly max_attempts times and
\* returns exactly the records of the last attempt, nothing of earlier ones.
C2_LastAttemptReturned ==
    /\ (max_attempts >= 1 /\ pc = "done" /\ NoneValid) =>
            /\ Len(completions) = max_attempts
            /\ calls = max_attempts
            /\ result = Returned(Parsed(max_attempts))
    /\ (max_attempts >= 1 /\ Len(completions) = max_attempts /\ calls = max_attempts
            /\ NoneValid) =>
            pc # "raised"

\* two attempts failed validation, the first with records, the last with
\* none: the empty list of the last attempt is what is returned
C2_Witness ==
    /\ pc = "done"
    /\ max_attempts = 2
    /\ NoneValid
    /\ Parsed(1) # <<>>
    /\ Parsed(2) = <<>>
    /\ result = Returned(<<>>)

\* a Model Client call ended without a completion: it failed
ClientFailed == outstanding = 0 /\ calls > Len(completions)

\* C3: when the Model Client call of attempt k fails, the failure reaches the
\* caller at once: the function has raised the failure, nothing is returned,
\* exactly k calls were made (the k-1 before it all answered and failed
\* validation, the failed call consumed no retry) and no step follows.
C3_ClientFailurePropagates ==
    ClientFailed =>
        /\ pc = "raised"
        /\ \E msg \in ClientErrors : error = QuizGenerationFailed(msg)
        /\ result = NotReturned
        /\ calls = Len(completions) + 1
        /\ attempt = Len(completions)
        /\ NoneValid
        /\ ~ENABLED Next

\* the call of the second attempt failed
C3_Witness ==
    /\ ClientFailed
    /\ pc = "raised"
    /\ calls = 2
    /\ Len(completions) = 1

\* a record with a question, an answer and, when multiple-choice, 4 options
Complete(q) ==
    /\ q.question # <<>>
    /\ q.correct_answer # <<>>
    /\ (q.type = "mcq" => ~q.options.none /\ Len(q.options.items) = 4)

\* the record set an attempt needs: one complete record when at most 3
\* questions were asked for, n - 2 of them when n > 3 were
MeetsThreshold(qs, n) ==
    /\ Len(qs) >= (IF n <= 3 THEN 1 ELSE n - 2)
    /\ \A i \in 1..Len(qs) : Complete(qs[i])

\* C10: an attempt is accepted (returned without further retry) exactly when
\* its records validate against max(1, num_questions - 2): every attempt that
\* was retried fell short of that threshold, and an attempt returned before
\* the budget ran out met it.
C10_RelaxedThreshold ==
    /\ \A k \in 1..Len(completions) :
          k <= attempt => ~MeetsThreshold(Parsed(k), num_questions)
    /\ (pc = "done" /\ Len(completions) = attempt + 1) =>
          /\ MeetsThreshold(Parsed(attempt + 1), num_questions)
          /\ result = Returned(Parsed(attempt + 1))

\* 4 questions asked for, 2 records accepted on the first attempt
C10_Witness ==
    /\ pc = "done"
    /\ num_questions = 4
    /\ attempt = 0
    /\ Len(completions) = 1
    /\ Len(result.value) = 2

(***************************************************************************)
(* Properties of validate_quiz_questions (specification SpecValidate).     *)
(***************************************************************************)
\* the number of options of a record (none when options is absent)
OptionCount(q) == IF q.options.none THEN 0 ELSE Len(q.options.items)

\* the three grounds for rejecting a record set
TooFewRecords == Len(v_questions) < min_questions
SomeRecordEmpty ==
    \E i \in 1..Len(v_questions) :
        v_questions[i].question = <<>> \/ v_questions[i].correct_answer = <<>>
SomeMcqNotFourOptions ==
    \E i \in 1..Len(v_questions) :
        v_questions[i].type = "mcq" /\ OptionCount(v_questions[i]) # 4

\* C4: validate_quiz_questions returns false if and only if the record count
\* is below min_questions, or some record has an empty question or an empty
\* correct_answer, or some multiple-choice record has an option count other
\* than 4 (true/false records are exempt from the option count).
C4_ValidatorVerdict ==
    vpc = "done" =>
        /\ v_result \in {"True", "False"}
        /\ (v_result = "False") <=>
              (TooFewRecords \/ SomeRecordEmpty \/ SomeMcqNotFourOptions)

\* three well-formed multiple-choice records validate against min_questions 3
C4_Witness ==
    /\ vpc = "done"
    /\ v_result = "True"
    /\ min_questions = 3
    /\ Len(v_questions) = 3
    /\ \A i \in 1..3 : v_questions[i].type = "mcq" /\ OptionCount(v_questions[i]) = 4

(***************************************************************************)
(* Properties of parse_quiz_response (specification SpecParse).            *)
(* p_spec is what the completion p_text was assembled from.                *)
(***************************************************************************)
\* the data-model invariant of a record
RecordInvariant(q) ==
    \/ /\ q.type = "mcq"
       /\ ~q.options.none
       /\ Len(q.options.items) = 4
       /\ \E k \in 1..4 : q.options.items[k] = q.correct_answer
    \/ /\ q.type = "true_false"
       /\ q.options = None
       /\ q.correct_answer \in {TRUE_WORD, FALSE_WORD}

WellFormedBlock(b) ==
    \/ b.letters = <<1, 2, 3, 4>> /\ b.correct \in { <<"A">>, <<"B">>, <<"C">>, <<"D">> }
    \/ b.letters = <<>> /\ b.correct \in {TRUE_WORD, FALSE_WORD}

\* the record a well-formed block stands for
ExpectedRecord(b) ==
    IF b.letters = <<>>
    THEN TrueFalseRecord(b.q, b.correct)
    ELSE McqRecord(b.q, OptionTexts,
                   OptionTexts[CHOOSE k \in 1..4 : OptionLetters[k] = b.correct[1]])

RECURSIVE ExpectedRecords(_)
ExpectedRecords(bs) ==
    IF bs = <<>> THEN <<>>
    ELSE << ExpectedRecord(Head(bs)) >> \o ExpectedRecords(Tail(bs))

AllWellFormed == \A i \in 1..Len(p_spec) : WellFormedBlock(p_spec[i])
AllPlain == \A i \in 1..Len(p_spec) : p_spec[i].q = PlainText

\* C6: a completion assembled from well-formed blocks parses to exactly one
\* record per block, in block order, with the block's question, options and
\* designated answer.
C6_RoundTrip ==
    (ppc = "done" /\ AllWellFormed) => p_questions = ExpectedRecords(p_spec)

\* the round trip does hold when no question text holds an option marker
RoundTripOfPlainQuestions ==
    (ppc = "done" /\ AllWellFormed /\ AllPlain) => p_questions = ExpectedRecords(p_spec)

\* a block whose answer cannot be resolved: a multiple-choice block with an
\* invalid letter, without Correct line or with fewer than 4 option lines; a
\* true/false block without Correct: True|False line
MalformedBlock(b) ==
    \/ b.letters = <<1, 2, 3, 4>> /\ b.correct \in { <<>>, <<"E">> }
    \/ b.letters = <<1, 2, 3>>
    \/ b.letters = <<>> /\ b.correct \in { <<>>, <<"E">> }

\* C7: a malformed block contributes no record, and the well-formed blocks of
\* the same completion still yield their records, in order.  The well-formed
\* blocks are taken with a plain question, so that a violation is the doing of
\* a malformed block.
C7_MalformedBlocksSkipped ==
    (/\ ppc = "done"
     /\ \A i \in 1..Len(p_spec) :
           \/ MalformedBlock(p_spec[i])
           \/ WellFormedBlock(p_spec[i]) /\ p_spec[i].q = PlainText)
    => p_questions = ExpectedRecords(SelectSeq(p_spec, WellFormedBlock))

\* malformed blocks are skipped when no question text holds an option marker
MalformedPlainBlocksSkipped ==
    (/\ ppc = "done"
     /\ AllPlain
     /\ \A i \in 1..Len(p_spec) : MalformedBlock(p_spec[i]) \/ WellFormedBlock(p_spec[i]))
    => p_questions = ExpectedRecords(SelectSeq(p_spec, WellFormedBlock))

(***************************************************************************)
(* Properties of chunk_text (specification SpecChunk).                     *)
(***************************************************************************)
\* C8: the chunks, joined in order with single spaces, are the input's words
\* joined by single spaces.
C8_ChunksRejoin ==
    cpc = "done" => Join(chunks, << SP >>) = Join(SplitWords(c_text), << SP >>)

\* a chunk made of one word
IsSingleWord(c) == c # <<>> /\ \A i \in 1..Len(c) : c[i] \notin Whitespace

C11_ValidatedRecordsInvariant ==
    (vpc = "done" /\ v_result = "True") =>
        /\ Len(v_questions) >= min_questions
        /\ \A i \in 1..Len(v_questions) : RecordInvariant(v_questions[i])

\* C11 as amended: when validate_quiz_questions returns true, the set has at
\* least min_questions records, every record has a non-empty question and a
\* non-empty correct_answer, and every multiple-choice record has exactly 4
\* options.
C11_ValidatedRecordsComplete ==
    (vpc = "done" /\ v_result = "True") =>
        /\ Len(v_questions) >= min_questions
        /\ \A i \in 1..Len(v_questions) : Complete(v_questions[i])

\* a validated set that holds a record outside the data-model invariant
C11_Witness ==
    /\ vpc = "done"
    /\ v_result = "True"
    /\ min_questions >= 1
    /\ \E i \in 1..Len(v_questions) :
          /\ v_questions[i].type = "mcq"
          /\ \A k \in 1..4 : v_questions[i].options.items[k] # v_questions[i].correct_answer

(***************************************************************************)
(* Sequencing of the attempts of regenerate_if_needed (specification Spec).*)
(***************************************************************************)
\* C14: attempts are strictly sequential.  At most one Model Client call is
\* outstanding, and one is outstanding exactly while the controller waits; a
\* call is issued only when every earlier attempt's completion has been
\* received, parsed and rejected by validation; every call sends the same
\* prompt, built from (text, num_questions, question_type); and the number of
\* calls never exceeds max_attempts (no call at all when max_attempts <= 0).
C14_SequentialAttempts ==
    /\ outstanding \in {0, 1}
    /\ (outstanding = 1) <=> (pc = "wait")
    /\ Len(prompts) = calls
    /\ \A i \in 1..Len(prompts) :
          /\ prompts[i] = prompts[1]
          /\ prompts[i].text = text
          /\ prompts[i].kind = question_type
          /\ prompts[i].mcq_count + prompts[i].tf_count = num_questions
    /\ pc \in {"generate", "wait"} =>
          /\ Len(completions) = attempt
          /\ questions.bound <=> attempt > 0
          /\ attempt > 0 => questions.value = Parsed(attempt)
          /\ NoneValid
    /\ pc = "wait" => calls = attempt + 1
    /\ pc = "generate" => calls = attempt
    /\ max_attempts >= 0 => calls <= max_attempts
    /\ max_attempts < 0 => calls = 0

\* the call of the second attempt is outstanding
C14_Witness ==
    /\ pc = "wait"
    /\ calls = 2
    /\ outstanding = 1
    /\ Len(completions) = 1

\* C16: for every max_attempts, zero and negative included, and every sequence
\* of successful completions, regenerate_if_needed returns a record list and
\* raises no error of its own: the only error it surfaces is a Model Client
\* failure.
C16_OnlyClientFailuresRaised ==
    /\ pc = "raised" => (ClientFailed /\ error.type = "Exception")
    /\ pc = "done" => result.returned

(***************************************************************************)
(* Greediness of chunk_text (specification SpecChunk).                     *)
(***************************************************************************)
\* the first word of a chunk
FirstWord(c) == SubSeq(c, 1, SkipWord(c, 1) - 1)

\* C15 as claimed: a new chunk is started before a word only when the current
\* chunk, one space and the word would be longer than max_length: for
\* consecutive chunks c, c', len(c) + 1 + len(first word of c') > max_length,
\* and two words whose space-joined length is exactly max_length stay in one
\* chunk.
C15_GreedyStrict ==
    cpc = "done" =>
        /\ \A i \in 1..(Len(chunks) - 1) :
              Len(chunks[i]) + 1 + Len(FirstWord(chunks[i + 1])) > max_length
        /\ (Len(words) = 2 /\ Len(words[1]) + 1 + Len(words[2]) = max_length) =>
              chunks = << Join(words, << SP >>) >>

\* C15 as amended: chunk_text charges every word its length plus one, so a new
\* chunk is started before a word exactly when the current chunk, one space,
\* the word and one more character would be longer than max_length: for
\* consecutive chunks c, c', len(c) + 1 + len(first word of c') >= max_length,
\* a chunk of several words is shorter than max_length, and two words whose
\* space-joined length is exactly max_length are put in two chunks.
C15_GreedyWithTrailingSpace ==
    cpc = "done" =>
        /\ \A i \in 1..(Len(chunks) - 1) :
              Len(chunks[i]) + 1 + Len(FirstWord(chunks[i + 1])) >= max_length
        /\ \A i \in 1..Len(chunks) :
              (chunks[i] # <<>> /\ ~IsSingleWord(chunks[i])) => Len(chunks[i]) < max_length
        /\ (Len(words) = 2 /\ Len(words[1]) + 1 + Len(words[2]) = max_length) =>
              chunks = << words[1], words[2] >>
        /\ (Len(words) = 2 /\ Len(words[1]) + 1 + Len(words[2]) < max_length) =>
              chunks = << Join(words, << SP >>) >>

\* two words that would fill max_length exactly end up in two chunks
C15_Witness ==
    /\ cpc = "done"
    /\ Len(words) = 2
    /\ Len(words[1]) + 1 + Len(words[2]) = max_length
    /\ chunks = << words[1], words[2] >>

(***************************************************************************)
(* Properties of the service (specification SpecService).  Between two     *)
(* requests (spc = "accept", handled > 0) the variables of the request     *)
(* describe the request that was handled last.                             *)
(***************************************************************************)
\* the last request was an upload and has been answered
UploadAnswered == spc = "accept" /\ handled > 0 /\ s_op = "upload_file"

\* what each function puts in front of the message of the failure it caught
ErrorPrefix ==
    IF s_op = "generate_quiz" THEN << "Quiz generation failed: " >>
    ELSE IF s_op = "generate_summary" THEN << "Summary generation failed: " >>
    ELSE << "Failed to extract text from " >> \o FilePath(s_filename) \o << ": " >>

\* C12 as claimed: a failure raised by a collaborator (the Model Client in
\* generate_quiz and generate_summary, an extractor in extract_text_from_file)
\* is observed unmodified by the caller of the function: same message.
C12_FailurePropagatesUnmodified ==
    s_raised.raised =>
        /\ s_observed.raised
        /\ s_observed.message = s_raised.message

\* C12 as amended: the caller of the function observes a new Exception whose
\* message is the collaborator's message behind the function's own prefix,
\* nothing is observed unless a collaborator failed, and upload_file answers
\* 500 with that prefixed message as its detail.
C12_FailureWrappedWithPrefix ==
    /\ s_observed.raised <=> s_raised.raised
    /\ s_raised.raised =>
          /\ s_observed.type = "Exception"
          /\ s_observed.message = ErrorPrefix \o s_raised.message
          /\ s_observed.message # s_raised.message
    /\ (UploadAnswered /\ s_raised.raised) =>
          /\ response.status = 500
          /\ response.detail = s_observed.message

\* an extractor failed and the upload has been answered
C12_Witness ==
    /\ UploadAnswered
    /\ s_raised.raised
    /\ response.status = 500

\* C13: upload_file answers a file whose extension is not .txt, .pdf or .docx
\* with status 400 and the detail "File type not supported..."; status 500 is
\* produced only for failures after the type check (saving, extracting).
C13_UnsupportedTypeAnswered400 ==
    UploadAnswered =>
        /\ FileExt(s_filename) \notin AllowedExtensions =>
              /\ response.status = 400
              /\ response.detail = FileTypeNotSupported
        /\ response.status = 500 => s_stage \in {"save", "extract"}

\* C17: when upload_file has finished a request by a successful extraction,
\* an extraction failure or the rejection of the file type, the file it saved
\* under the uploads directory has been removed.
C17_UploadedFileRemoved ==
    (UploadAnswered /\ s_stage \in {"none", "extract", "type_check"}) =>
        FilePath(s_filename) \notin disk

====
